---------------------------- MODULE Spec2Model ----------------------------
(***************************************************************************)
(* A model of lstore/db.py: the serializer (convert_to_serializable,       *)
(* rehydrate) and the Database lifecycle (open, close, create_table,       *)
(* drop_table) over a directory of table files.                            *)
(*                                                                         *)
(* Python values are nodes [kind, cls, i, s, keys, kids].  In memory a     *)
(* value lives in a heap (a sequence of nodes, an object's id being its    *)
(* position) and keys/kids hold ids; plain data (what the serializer       *)
(* emits, what a file holds, what rehydrate builds) is a tree and          *)
(* keys/kids hold trees.  An object with attributes is a node of kind      *)
(* "obj" whose single kid is its __dict__, a dict of its own.              *)
(***************************************************************************)
EXTENDS Integers, Sequences, FiniteSets, TLC

\* ------------------------------------------------------------------ bounds
MaxNodes == 4          \* objects in a graph handed to the serializer
MaxEdges == 2          \* references added between the objects of a graph
RecursionLimit == 9    \* stands for the interpreter's recursion limit
MaxRid == 1            \* inserts per table
MaxTail == 1           \* updates per table
MaxCalls == 6          \* calls made on Database objects and their tables

Names == {"A", "B"}                \* table names
Paths == {"p", "q"}                \* directory paths
Values == {1}                      \* column values
\* <<num_columns, key_index>> as passed to create_table: key_index inside
\* [0, num_columns), at num_columns, and negative.
Schemas == {<<2, 1>>, <<1, 1>>, <<1, -1>>}

\* ------------------------------------------------------------------ values
Node(kind, cls, i, s, keys, kids) ==
    [kind |-> kind, cls |-> cls, i |-> i, s |-> s, keys |-> keys, kids |-> kids]

PyInt(n)   == Node("int", "int", n, "", <<>>, <<>>)
PyStr(x)   == Node("str", "str", 0, x, <<>>, <<>>)
PyNone    == Node("none", "NoneType", 0, "", <<>>, <<>>)
PyList(xs) == Node("list", "list", 0, "", <<>>, xs)
PyDict(ks, vs) == Node("dict", "dict", 0, "", ks, vs)
PyObj(cls, d)  == Node("obj", cls, 0, "", <<>>, <<d>>)

Max(a, b) == IF a >= b THEN a ELSE b

\* d[key] for a dict tree with string keys; HasKey is `key in d`.
KeyIndex(d, key) == CHOOSE j \in 1..Len(d.keys) : d.keys[j] = PyStr(key)
HasKey(d, key) == \E j \in 1..Len(d.keys) : d.keys[j] = PyStr(key)
Lookup(d, key) == d.kids[KeyIndex(d, key)]

\* -------------------------------------------------- convert_to_serializable
\* type(obj).__name__
TypeName(n) == n.cls

\* f"<recursion: {type(obj).__name__}>"
RecursionMarker(name) ==
    CASE name = "list"   -> "<recursion: list>"
      [] name = "tuple"  -> "<recursion: tuple>"
      [] name = "set"    -> "<recursion: set>"
      [] name = "dict"   -> "<recursion: dict>"
      [] name = "Table"  -> "<recursion: Table>"
      [] name = "Index"  -> "<recursion: Index>"
      [] name = "Page"   -> "<recursion: Page>"
      [] name = "str"    -> "<recursion: str>"
      [] name = "int"    -> "<recursion: int>"
      [] name = "NoneType" -> "<recursion: NoneType>"
      [] OTHER           -> "<recursion: object>"

\* The check of the seen set left out.
NeverOnActivePath(obj_id, seen) == FALSE

\* obj_id in seen
OnActivePath(obj_id, seen) == obj_id \in seen

\* seen.remove left out: an object stays in the set once visited.
SeenKept(seen, obj_id) == seen

\* seen.add(obj_id) / seen.remove(obj_id)
SeenAdd(seen, obj_id) == seen \cup {obj_id}
SeenRemove(seen, obj_id) == seen \ {obj_id}

\* int left out of the basic types: an integer falls through to str(obj).
IsBasicButInt(n) == n.kind \in {"str", "float", "bool", "none"}

\* isinstance(obj, (str, int, float, bool, type(None)))
IsBasic(n) == n.kind \in {"str", "int", "float", "bool", "none"}

\* isinstance(obj, (list, tuple, set))
IsSequenceLike(n) == n.kind \in {"list", "tuple", "set"}

\* {"__custom_type__": <tag>, "state": <converted __dict__>}
Tagged(tag, state) == PyDict(<<PyStr("__custom_type__"), PyStr("state")>>, <<PyStr(tag), state>>)

\* <<k1, v1, k2, v2, ...>>: the order in which a dict comprehension visits.
Interleave(ks, vs) ==
    [j \in 1..(2 * Len(ks)) |-> IF j % 2 = 1 THEN ks[(j + 1) \div 2] ELSE vs[j \div 2]]
Odds(xs)  == [j \in 1..(Len(xs) \div 2) |-> xs[2 * j - 1]]
Evens(xs) == [j \in 1..(Len(xs) \div 2) |-> xs[2 * j]]

\* One call convert_to_serializable(obj, seen) at call depth `depth` on the
\* object `id` of heap h.  The result carries the value returned (out), the
\* seen set as the call leaves it and the deepest call depth reached below.
\* A call deeper than RecursionLimit is the interpreter's RecursionError.
RECURSIVE Walk(_, _, _, _), WalkSeq(_, _, _, _)
Walk(h, id, seen, depth) ==
    IF depth > RecursionLimit
    THEN [out |-> PyStr("RecursionError"), seen |-> seen, depth |-> depth]
    ELSE IF OnActivePath(id, seen)
    THEN [out |-> PyStr(RecursionMarker(TypeName(h[id]))), seen |-> seen, depth |-> depth]
    ELSE
      LET n == h[id]
          seen1 == SeenAdd(seen, id)
      IN  IF IsBasic(n)
          THEN [out |-> n, seen |-> SeenRemove(seen1, id), depth |-> depth]
          ELSE IF n.kind = "dict"
          THEN LET r == WalkSeq(h, Interleave(n.keys, n.kids), seen1, depth + 1)
               IN  [out |-> PyDict(Odds(r.outs), Evens(r.outs)),
                    seen |-> SeenRemove(r.seen, id), depth |-> Max(depth, r.depth)]
          ELSE IF IsSequenceLike(n)
          THEN LET r == WalkSeq(h, n.kids, seen1, depth + 1)
               IN  [out |-> PyList(r.outs),
                    seen |-> SeenRemove(r.seen, id), depth |-> Max(depth, r.depth)]
          ELSE IF n.kind = "obj"
          THEN LET r == Walk(h, n.kids[1], seen1, depth + 1)
               IN  [out |-> Tagged(TypeName(n), r.out),
                    seen |-> SeenRemove(r.seen, id), depth |-> Max(depth, r.depth)]
          ELSE [out |-> PyStr(n.s), seen |-> SeenRemove(seen1, id), depth |-> depth]

\* The calls a comprehension makes, left to right, sharing the one seen set.
WalkSeq(h, ids, seen, depth) ==
    IF ids = <<>>
    THEN [outs |-> <<>>, seen |-> seen, depth |-> depth - 1]
    ELSE LET r == Walk(h, Head(ids), seen, depth)
             rest == WalkSeq(h, Tail(ids), r.seen, depth)
         IN  [outs |-> <<r.out>> \o rest.outs, seen |-> rest.seen,
              depth |-> Max(r.depth, rest.depth)]

\* convert_to_serializable(obj), seen=None
convert_to_serializable(h, id) == Walk(h, id, {}, 1)

\* ---------------------------------------------------------------- rehydrate
\* typ == "Table" / typ == "Index": the tags rehydrate rebuilds an instance for.
RebuildsInstance(typ) == typ \in {PyStr("Table"), PyStr("Index")}

RECURSIVE rehydrate(_)
rehydrate(t) ==
    IF t.kind = "dict"
    THEN IF HasKey(t, "__custom_type__")
            /\ RebuildsInstance(Lookup(t, "__custom_type__"))
         THEN LET state == IF HasKey(t, "state") THEN Lookup(t, "state")
                           ELSE PyDict(<<>>, <<>>)
              IN  PyObj(Lookup(t, "__custom_type__").s, rehydrate(state))
         ELSE PyDict(t.keys, [j \in 1..Len(t.kids) |-> rehydrate(t.kids[j])])
    ELSE IF t.kind = "list"
    THEN PyList([j \in 1..Len(t.kids) |-> rehydrate(t.kids[j])])
    ELSE t

\* ------------------------------------------------------------ object graphs
\* The objects of a value held in memory: every position of the tree t is an
\* object of its own.  Objects(t, base) lists them, t itself first with id
\* base + 1, then the objects of its keys and of its kids.
RECURSIVE Size(_), SumSizes(_, _), Objects(_, _), ObjectsFrom(_, _, _)
Size(t) == 1 + SumSizes(t.keys \o t.kids, Len(t.keys) + Len(t.kids))
SumSizes(ts, j) == IF j = 0 THEN 0 ELSE SumSizes(ts, j - 1) + Size(ts[j])
Objects(t, base) ==
    LET all == t.keys \o t.kids
        nk == Len(t.keys)
        ChildId(j) == base + 2 + SumSizes(all, j - 1)
    IN  <<[t EXCEPT !.keys = [j \in 1..nk |-> ChildId(j)],
                    !.kids = [j \in 1..Len(t.kids) |-> ChildId(nk + j)]]>>
        \o ObjectsFrom(all, 1, base + 1)
ObjectsFrom(ts, j, base) ==
    IF j > Len(ts) THEN <<>>
    ELSE Objects(ts[j], base) \o ObjectsFrom(ts, j + 1, base + Size(ts[j]))

\* convert_to_serializable(table) for a table value held in memory.
Serialize(t) == convert_to_serializable(Objects(t, 0), 1).out

\* -------------------------------------------------------------------- state
VARIABLES
    tables,     \* Database.tables: table name -> the Table held in memory
    db_path,    \* Database.db_path: NoPath (None) or a directory path
    dirs,       \* the directories that exist
    files,      \* files[path]: file name -> the bytes of the file
    closing,    \* the position of a close() in progress
    lastOp,     \* the most recent call and how it ended
    calls,      \* the number of calls made so far
    saved,      \* saved[path]: name -> next RID as of the last complete close()
    bufferpool, \* Database.bufferpool: the frames that are dirty
    dropped,    \* dropped[path]: the names dropped there and not created since
    heap,       \* an object graph handed to the serializer
    pcG,        \* "build", "serialized" or "loaded"
    root,       \* the object convert_to_serializable was called on
    ser,        \* what that call returned
    reh         \* rehydrate of the value returned

dbVars == <<tables, db_path, dirs, files, closing, lastOp, calls, saved,
            bufferpool, dropped>>
graphVars == <<heap, pcG, root, ser, reh>>
vars == <<tables, db_path, dirs, files, closing, lastOp, calls, saved,
          bufferpool, dropped, heap, pcG, root, ser, reh>>

\* ------------------------------------------------- graphs for the serializer
Basics == {PyInt(1), PyStr("a")}
Classes == {"Table", "Page"}

\* id is the __dict__ of an object of h.
IsInstanceDict(h, id) == \E o \in 1..Len(h) : h[o].kind = "obj" /\ h[o].kids[1] = id

\* The references held by the containers of h (an object's own __dict__ aside).
RECURSIVE SumKids(_, _)
SumKids(h, j) ==
    IF j = 0 THEN 0
    ELSE SumKids(h, j - 1) + (IF h[j].kind = "obj" THEN 0 ELSE Len(h[j].kids))
NumEdges(h) == SumKids(h, Len(h))

\* The objects reachable from id: the object itself, and whatever its keys
\* and kids reach.
RECURSIVE ReachFrom(_, _)
ReachFrom(h, S) ==
    LET T == S \cup UNION {{h[a].kids[j] : j \in 1..Len(h[a].kids)} : a \in S}
               \cup UNION {{h[a].keys[j] : j \in 1..Len(h[a].keys)} : a \in S}
    IN  IF T = S THEN S ELSE ReachFrom(h, T)
Reachable(h, id) == ReachFrom(h, {id})

\* The objects not (yet) reachable from the first one.  An object is created
\* to be referred to: at most one waits for its reference when the next is
\* created (a key and its value wait together).
Loose(h) == IF h = <<>> THEN {} ELSE (1..Len(h)) \ Reachable(h, 1)
MayCreate(h) == Cardinality(Loose(h)) <= 1

GraphInit ==
    /\ heap = <<>>
    /\ pcG = "build"
    /\ root = 0
    /\ ser = [out |-> PyNone, seen |-> {}, depth |-> 0]
    /\ reh = PyNone

\* A new scalar object.
AddBasic(v) ==
    /\ pcG = "build"
    /\ Len(heap) < MaxNodes
    /\ MayCreate(heap)
    /\ heap' = Append(heap, v)
    /\ UNCHANGED <<pcG, root, ser, reh>>
    /\ UNCHANGED dbVars

\* A new empty list or dict.
AddContainer(kind) ==
    /\ pcG = "build"
    /\ Len(heap) < MaxNodes
    /\ MayCreate(heap)
    /\ heap' = Append(heap, IF kind = "dict" THEN PyDict(<<>>, <<>>) ELSE PyList(<<>>))
    /\ UNCHANGED <<pcG, root, ser, reh>>
    /\ UNCHANGED dbVars

\* A new object of class cls, with its (empty) __dict__.
AddObject(cls) ==
    /\ pcG = "build"
    /\ Len(heap) + 2 <= MaxNodes
    /\ MayCreate(heap)
    /\ heap' = heap \o <<PyObj(cls, Len(heap) + 2), PyDict(<<>>, <<>>)>>
    /\ UNCHANGED <<pcG, root, ser, reh>>
    /\ UNCHANGED dbVars

\* c.append(v)
LinkItem(c, v) ==
    /\ pcG = "build"
    /\ NumEdges(heap) < MaxEdges
    /\ heap[c].kind = "list"
    /\ ~IsInstanceDict(heap, v)
    /\ heap' = [heap EXCEPT ![c].kids = Append(@, v)]
    /\ UNCHANGED <<pcG, root, ser, reh>>
    /\ UNCHANGED dbVars

\* c[k] = v for a dict c, setattr(o, k, v) for the __dict__ c of an object o;
\* k is a scalar (hashable) that is not yet a key of c.
LinkKey(c, k, v) ==
    /\ pcG = "build"
    /\ NumEdges(heap) < MaxEdges
    /\ heap[c].kind = "dict"
    /\ IsBasic(heap[k])
    /\ IsInstanceDict(heap, c) => heap[k].kind = "str"
    /\ \A j \in 1..Len(heap[c].keys) : heap[heap[c].keys[j]] # heap[k]
    /\ ~IsInstanceDict(heap, v)
    /\ heap' = [heap EXCEPT ![c].keys = Append(@, k), ![c].kids = Append(@, v)]
    /\ UNCHANGED <<pcG, root, ser, reh>>
    /\ UNCHANGED dbVars

\* convert_to_serializable(obj) on the first object of the graph (every
\* graph is, up to the numbering of its objects, one built from its root).
Convert ==
    /\ pcG = "build"
    /\ heap # <<>>
    /\ root' = 1
    /\ ser' = convert_to_serializable(heap, 1)
    /\ pcG' = "serialized"
    /\ UNCHANGED <<heap, reh>>
    /\ UNCHANGED dbVars

\* rehydrate(...) of what the serializer returned.
Load ==
    /\ pcG = "serialized"
    /\ ser.depth <= RecursionLimit
    /\ reh' = rehydrate(ser.out)
    /\ pcG' = "loaded"
    /\ UNCHANGED <<heap, root, ser>>
    /\ UNCHANGED dbVars

GraphNext ==
    \/ \E v \in Basics : AddBasic(v)
    \/ \E kind \in {"list", "dict"} : AddContainer(kind)
    \/ \E cls \in Classes : AddObject(cls)
    \/ \E c \in 1..Len(heap), v \in 1..Len(heap) : LinkItem(c, v)
    \/ \E c \in 1..Len(heap), k \in 1..Len(heap), v \in 1..Len(heap) : LinkKey(c, k, v)
    \/ Convert
    \/ Load

\* ------------------------------------------------------------ Table, Index
\* Table, Index and Page live in lstore/table.py and lstore/index.py, outside
\* db.py: the Table below holds what the design document gives it (its
\* metadata, its primary-key Index, its base and tail pages).
NewIndex == PyObj("Index", PyDict(<<PyStr("map")>>, <<PyList(<<>>)>>))
NewPage  == PyObj("Page", PyDict(<<PyStr("slots")>>, <<PyList(<<>>)>>))

\* Table(name, num_columns, key_index)
NewTable(name, num_columns, key_index) ==
    PyObj("Table",
          PyDict(<<PyStr("name"), PyStr("num_columns"), PyStr("key"), PyStr("next_rid"),
                   PyStr("index"), PyStr("base"), PyStr("tail"), PyStr("deleted")>>,
                 <<PyStr(name), PyInt(num_columns), PyInt(key_index), PyInt(0),
                   NewIndex, NewPage, NewPage, PyList(<<>>)>>))

\* getattr(o, name) / setattr(o, name, v) on an object tree.
Attr(o, name) == Lookup(o.kids[1], name)
SetAttr(o, name, v) == [o EXCEPT !.kids[1].kids[KeyIndex(o.kids[1], name)] = v]

NextRid(t) == Attr(t, "next_rid").i
NumColumns(t) == Attr(t, "num_columns").i
KeyOrdinal(t) == Attr(t, "key").i

\* A table whose index and pages are the objects its methods work on (a
\* table read back from a file holds plain mappings in the place of pages).
IsUsable(t) ==
    /\ t.kind = "obj"
    /\ Attr(t, "index").kind = "obj"
    /\ Attr(t, "base").kind = "obj"
    /\ Attr(t, "tail").kind = "obj"

IndexEntries(t) == Attr(Attr(t, "index"), "map").kids
BaseSlots(t) == Attr(Attr(t, "base"), "slots").kids
TailSlots(t) == Attr(Attr(t, "tail"), "slots").kids
Deleted(t) == {Attr(t, "deleted").kids[j].i : j \in 1..Len(Attr(t, "deleted").kids)}
IndexKeys(t) == {IndexEntries(t)[j].kids[1].i : j \in 1..Len(IndexEntries(t))}
LiveRids(t) == {IndexEntries(t)[j].kids[2].i : j \in 1..Len(IndexEntries(t))}

Append1(o, name, v) ==
    SetAttr(o, name, [Attr(o, name) EXCEPT !.kids = Append(@, v)])

\* Table.insert(values): the table afterwards.
TableInsert(t, values) ==
    LET rid == NextRid(t)
        row == PyList(<<PyInt(rid)>> \o [j \in 1..Len(values) |-> PyInt(values[j])])
        ent == PyList(<<PyInt(values[KeyOrdinal(t) + 1]), PyInt(rid)>>)
        t1  == SetAttr(t, "next_rid", PyInt(rid + 1))
        t2  == SetAttr(t1, "base", Append1(Attr(t1, "base"), "slots", row))
    IN  SetAttr(t2, "index", Append1(Attr(t2, "index"), "map", ent))

\* Table.update(rid, {col: val}): a tail entry is appended.
TableUpdate(t, rid, col, val) ==
    SetAttr(t, "tail",
            Append1(Attr(t, "tail"), "slots", PyList(<<PyInt(rid), PyInt(col), PyInt(val)>>)))

\* Table.delete(rid): the key leaves the index and the RID is marked deleted.
TableDelete(t, rid) ==
    LET ents == IndexEntries(t)
        keep == SelectSeq(ents, LAMBDA e : e.kids[2].i # rid)
        idx  == SetAttr(Attr(t, "index"), "map", PyList(keep))
    IN  Append1(SetAttr(t, "index", idx), "deleted", PyInt(rid))

\* ------------------------------------------------------------------- files
NoPath == "None"                       \* self.db_path = None

\* f"{table_name}.tbl", filename.endswith(".tbl"), filename[:-4]
FileName(table_name) == <<table_name, ".tbl">>
EndsWithTbl(filename) == filename[2] = ".tbl"
TableNameOf(filename) == filename[1]

\* msgpack.packb / msgpack.unpackb on plain data with string keys; a file
\* opened "wb" and not yet written holds no bytes, a write cut short holds
\* a prefix that does not unpack.
packb(t) == [size |-> "full", data |-> t]
unpackb(b) == b.data
EmptyBytes == [size |-> "empty", data |-> PyNone]
PartialBytes == [size |-> "partial", data |-> PyNone]

\* The test for an empty file left out.
NeverEmptyData(b) == FALSE

\* not data
IsEmptyData(b) == b.size = "empty"
\* msgpack.unpackb raises on these bytes
Unpackable(b) == b.size = "full"

Without(f, k) == [x \in DOMAIN f \ {k} |-> f[x]]
With(f, k, v) == [x \in DOMAIN f \cup {k} |-> IF x = k THEN v ELSE f[x]]
EmptyMap == [x \in {} |-> x]

\* os.remove left out: the file stays in the directory.
KeepFile(fs, filename) == fs

\* os.remove(path): the directory's files without the one removed.
os_remove(fs, filename) == Without(fs, filename)

\* Bufferpool.mark_dirty(page_id): the dirty frames afterwards.
mark_dirty(frames, page_id) == frames \cup {page_id}

\* The names dropped in a directory, once a close() has returned there.
ClosedSince(d) == [n \in DOMAIN d |-> "closed"]

\* not self.db_path
PathNotSet(path) == path = NoPath

\* A call and how it ended; ret is what it returned (None unless said).
Call(op, arg, err, fresh, prev) ==
    [op |-> op, arg |-> arg, err |-> err, fresh |-> fresh, prev |-> prev, ret |-> PyNone]
Idle == [todo |-> <<>>, open |-> FALSE]

\* ---------------------------------------------------------------- Database
\* Database(): no tables, no path; the directories and files are what earlier
\* processes left.
DBInit ==
    /\ tables = EmptyMap
    /\ db_path = NoPath
    /\ dirs = {}
    /\ files = [p \in Paths |-> EmptyMap]
    /\ closing = Idle
    /\ lastOp = Call("init", "", "none", FALSE, "")
    /\ calls = 0
    /\ saved = [p \in Paths |-> EmptyMap]
    /\ bufferpool = {}
    /\ dropped = [p \in Paths |-> EmptyMap]

\* A new process constructs a Database over the same filesystem.
NewDatabase ==
    /\ closing = Idle
    /\ calls < MaxCalls
    /\ calls' = calls + 1
    /\ tables' = EmptyMap
    /\ db_path' = NoPath
    /\ lastOp' = Call("init", "", "none", FALSE, "")
    /\ bufferpool' = {}
    /\ UNCHANGED <<dirs, files, closing, saved, dropped>>
    /\ UNCHANGED graphVars

\* The table open() builds from one file.
LoadedTable(path, filename) == rehydrate(unpackb(files[path][filename]))
LoadedTables(path, fns) ==
    [n \in {TableNameOf(fn) : fn \in fns} |->
        LoadedTable(path, CHOOSE fn \in fns : TableNameOf(fn) = n)]

\* Database.open(path)
Open(path) ==
    /\ closing = Idle
    /\ calls < MaxCalls
    /\ calls' = calls + 1
    /\ db_path' = path
    /\ IF path \notin dirs
       THEN /\ dirs' = dirs \cup {path}
            /\ lastOp' = Call("open", path, "none", TRUE, db_path)
            /\ UNCHANGED tables
       ELSE LET tbl == {fn \in DOMAIN files[path] : EndsWithTbl(fn)}
                data == {fn \in tbl : ~IsEmptyData(files[path][fn])}
                bad == {fn \in data : ~Unpackable(files[path][fn])}
            IN  /\ UNCHANGED dirs
                /\ IF bad = {}
                   THEN /\ tables' = LoadedTables(path, data)
                        /\ lastOp' = Call("open", path, "none", FALSE, db_path)
                   ELSE \* os.listdir gives no order: any of the good files
                        \* may have been loaded when unpackb raises.
                        \E before \in SUBSET (data \ bad) :
                            /\ tables' = LoadedTables(path, before)
                            /\ lastOp' = Call("open", path, "ValueError", FALSE, db_path)
    /\ UNCHANGED <<files, closing, saved, bufferpool, dropped>>
    /\ UNCHANGED graphVars

\* The orders in which self.tables.items() may visit the names S.
Orders(S) == {o \in [1..Cardinality(S) -> S] : \A a, b \in 1..Cardinality(S) : o[a] = o[b] => a = b}

\* Database.close() up to its first file: the path check, then the loop.
CloseBegin ==
    /\ closing = Idle
    /\ calls < MaxCalls
    /\ calls' = calls + 1
    /\ IF PathNotSet(db_path)
       THEN /\ lastOp' = Call("close", "", "ValueError", FALSE, "")
            /\ UNCHANGED <<closing, saved, dropped>>
       ELSE IF DOMAIN tables = {}
       THEN /\ lastOp' = Call("close", "", "none", FALSE, "")
            /\ saved' = [saved EXCEPT ![db_path] = EmptyMap]
            /\ dropped' = [dropped EXCEPT ![db_path] = ClosedSince(@)]
            /\ UNCHANGED closing
       ELSE /\ \E o \in Orders(DOMAIN tables) : closing' = [todo |-> o, open |-> FALSE]
            /\ lastOp' = Call("close", "", "running", FALSE, "")
            /\ saved' = [saved EXCEPT ![db_path] = EmptyMap]
            /\ UNCHANGED dropped
    /\ UNCHANGED <<tables, db_path, dirs, files, bufferpool>>
    /\ UNCHANGED graphVars

\* open(file_path, "wb"): the file exists and holds nothing.
CloseOpenFile ==
    /\ closing.todo # <<>>
    /\ UNCHANGED calls
    /\ ~closing.open
    /\ files' = [files EXCEPT ![db_path] = With(@, FileName(Head(closing.todo)), EmptyBytes)]
    /\ closing' = [closing EXCEPT !.open = TRUE]
    /\ UNCHANGED <<tables, db_path, dirs, lastOp, saved, bufferpool, dropped>>
    /\ UNCHANGED graphVars

\* The file is opened "wb" and nothing is written to it.
NothingWritten(table) == EmptyBytes

\* What close() writes for a table.
FileContents(table) == packb(Serialize(table))

\* f.write(packb(convert_to_serializable(table))); after the last table
\* close() returns.
CloseWriteFile ==
    /\ closing.todo # <<>>
    /\ UNCHANGED calls
    /\ closing.open
    /\ files' = [files EXCEPT ![db_path] =
                    With(@, FileName(Head(closing.todo)), FileContents(tables[Head(closing.todo)]))]
    /\ closing' = [todo |-> Tail(closing.todo), open |-> FALSE]
    /\ IF Tail(closing.todo) = <<>>
       THEN /\ lastOp' = Call("close", "", "none", FALSE, "")
            /\ saved' = [saved EXCEPT ![db_path] = [n \in DOMAIN tables |-> NextRid(tables[n])]]
            /\ dropped' = [dropped EXCEPT ![db_path] = ClosedSince(@)]
       ELSE UNCHANGED <<lastOp, saved, dropped>>
    /\ UNCHANGED <<tables, db_path, dirs, bufferpool>>
    /\ UNCHANGED graphVars

\* close() is interrupted (the process is killed or an exception unwinds
\* it); a file that was open holds nothing or a prefix of the write.
Interrupt ==
    /\ closing.todo # <<>>
    /\ UNCHANGED calls
    /\ closing' = Idle
    /\ lastOp' = Call("close", "", "Interrupted", FALSE, "")
    /\ IF closing.open
       THEN \E b \in {EmptyBytes, PartialBytes} :
                files' = [files EXCEPT ![db_path] = With(@, FileName(Head(closing.todo)), b)]
       ELSE UNCHANGED files
    /\ UNCHANGED <<tables, db_path, dirs, saved, bufferpool, dropped>>
    /\ UNCHANGED graphVars

\* Database.create_table(name, num_columns, key_index)
CreateTable(name, num_columns, key_index) ==
    /\ closing = Idle
    /\ calls < MaxCalls
    /\ calls' = calls + 1
    /\ tables' = With(tables, name, NewTable(name, num_columns, key_index))
    /\ lastOp' = Call("create_table", name, "none", FALSE, "")
    /\ dropped' = [p \in Paths |-> Without(dropped[p], name)]
    /\ UNCHANGED <<db_path, dirs, files, closing, saved, bufferpool>>
    /\ UNCHANGED graphVars

\* Database.drop_table(name)
DropTable(name) ==
    /\ closing = Idle
    /\ calls < MaxCalls
    /\ calls' = calls + 1
    /\ IF name \in DOMAIN tables
       THEN /\ tables' = Without(tables, name)
            /\ IF db_path = NoPath
               THEN \* os.path.join(None, ...)
                    /\ lastOp' = Call("drop_table", name, "TypeError", FALSE, "")
                    /\ UNCHANGED <<files, saved, dropped>>
               ELSE IF FileName(name) \notin DOMAIN files[db_path]
               THEN \* os.remove of a file that does not exist
                    /\ lastOp' = Call("drop_table", name, "FileNotFoundError", FALSE, "")
                    /\ dropped' = [dropped EXCEPT ![db_path] = With(@, name, "dropped")]
                    /\ UNCHANGED <<files, saved>>
               ELSE /\ files' = [files EXCEPT ![db_path] = os_remove(@, FileName(name))]
                    /\ saved' = [saved EXCEPT ![db_path] = Without(@, name)]
                    /\ dropped' = [dropped EXCEPT ![db_path] = With(@, name, "dropped")]
                    /\ lastOp' = Call("drop_table", name, "none", FALSE, "")
       ELSE /\ lastOp' = Call("drop_table", name, "none", FALSE, "")
            /\ UNCHANGED <<tables, files, saved, dropped>>
    /\ UNCHANGED <<db_path, dirs, closing, bufferpool>>
    /\ UNCHANGED graphVars

\* table.insert(values) on a registered table
Insert(name, values) ==
    /\ closing = Idle
    /\ calls < MaxCalls
    /\ calls' = calls + 1
    /\ name \in DOMAIN tables
    /\ LET t == tables[name]
       IN  /\ IsUsable(t)
           /\ NextRid(t) < MaxRid
           /\ Len(values) = NumColumns(t)
           /\ KeyOrdinal(t) \in 0..(NumColumns(t) - 1)
           /\ IF values[KeyOrdinal(t) + 1] \in IndexKeys(t)
              THEN /\ lastOp' = Call("insert", name, "DuplicateKey", FALSE, "")
                   /\ UNCHANGED <<tables, bufferpool>>
              ELSE /\ tables' = [tables EXCEPT ![name] = TableInsert(t, values)]
                   /\ bufferpool' = mark_dirty(bufferpool, <<name, "base">>)
                   /\ lastOp' = Call("insert", name, "none", FALSE, "")
    /\ UNCHANGED <<db_path, dirs, files, closing, saved, dropped>>
    /\ UNCHANGED graphVars

\* table.update(rid, {col: val}) on a registered table
Update(name, rid, col, val) ==
    /\ closing = Idle
    /\ calls < MaxCalls
    /\ calls' = calls + 1
    /\ name \in DOMAIN tables
    /\ LET t == tables[name]
       IN  /\ IsUsable(t)
           /\ Len(TailSlots(t)) < MaxTail
           /\ col \in 0..(NumColumns(t) - 1)
           /\ IF rid \in LiveRids(t)
              THEN /\ tables' = [tables EXCEPT ![name] = TableUpdate(t, rid, col, val)]
                   /\ bufferpool' = mark_dirty(bufferpool, <<name, "tail">>)
                   /\ lastOp' = Call("update", name, "none", FALSE, "")
              ELSE /\ lastOp' = Call("update", name, "NotFound", FALSE, "")
                   /\ UNCHANGED <<tables, bufferpool>>
    /\ UNCHANGED <<db_path, dirs, files, closing, saved, dropped>>
    /\ UNCHANGED graphVars

\* table.delete(rid) on a registered table
Delete(name, rid) ==
    /\ closing = Idle
    /\ calls < MaxCalls
    /\ calls' = calls + 1
    /\ name \in DOMAIN tables
    /\ LET t == tables[name]
       IN  /\ IsUsable(t)
           /\ IF rid \in LiveRids(t)
              THEN /\ tables' = [tables EXCEPT ![name] = TableDelete(t, rid)]
                   /\ lastOp' = Call("delete", name, "none", FALSE, "")
              ELSE /\ lastOp' = Call("delete", name, "NotFound", FALSE, "")
                   /\ UNCHANGED tables
    /\ UNCHANGED <<db_path, dirs, files, closing, saved, bufferpool, dropped>>
    /\ UNCHANGED graphVars

\* Database.get_table(name): self.tables.get(name, None)
GetTable(name) ==
    /\ closing = Idle
    /\ calls < MaxCalls
    /\ calls' = calls + 1
    /\ lastOp' = [Call("get_table", name, "none", FALSE, "") EXCEPT
                     !.ret = IF name \in DOMAIN tables THEN tables[name] ELSE PyNone]
    /\ UNCHANGED <<tables, db_path, dirs, files, closing, saved, bufferpool, dropped>>
    /\ UNCHANGED graphVars

DBNext ==
    \/ NewDatabase
    \/ \E path \in Paths : Open(path)
    \/ CloseBegin
    \/ CloseOpenFile
    \/ CloseWriteFile
    \/ Interrupt
    \/ \E name \in Names, sch \in Schemas : CreateTable(name, sch[1], sch[2])
    \/ \E name \in Names : DropTable(name)
    \/ \E name \in Names : GetTable(name)
    \/ \E name \in Names, values \in UNION {[1..sch[1] -> Values] : sch \in Schemas} :
          Insert(name, values)
    \/ \E name \in Names, rid \in 0..(MaxRid - 1), col \in {sch[1] - 1 : sch \in Schemas}, val \in Values :
          Update(name, rid, col, val)
    \/ \E name \in Names, rid \in 0..(MaxRid - 1) : Delete(name, rid)

\* ------------------------------------------------------------ specifications
Init == DBInit /\ GraphInit

\* The Database over its directory.
Next == DBNext
Spec == Init /\ [][Next]_vars

\* The serializer on object graphs.
NextGraph == GraphNext
SpecGraph == Init /\ [][NextGraph]_vars

\* ------------------------------------------------------------------- claims
IsTable(t) == t.kind = "obj" /\ t.cls = "Table"

\* C1: a table saved and loaded again equals the table, nested objects
\* (its pages) included: rehydrate(convert_to_serializable(T)) = T for every
\* registered table T.
C1_RoundTrip ==
    \A n \in DOMAIN tables : rehydrate(Serialize(tables[n])) = tables[n]

OpenedExisting == lastOp.op = "open" /\ ~lastOp.fresh /\ lastOp.err = "none"

\* C2: after a complete close(), an open() of the same directory that
\* returns registers every table that was registered at the close, under the
\* same name and with the same next-RID counter.
C2_RidCounterSurvivesReopen ==
    OpenedExisting =>
        \A n \in DOMAIN saved[db_path] :
            /\ n \in DOMAIN tables
            /\ IsTable(tables[n])
            /\ NextRid(tables[n]) = saved[db_path][n]

\* A new Database has opened the directory of an earlier close() and holds
\* a table that had issued a RID before the close.
C2_Witness ==
    /\ OpenedExisting
    /\ lastOp.prev = NoPath
    /\ \E n \in DOMAIN saved[db_path] : saved[db_path][n] > 0 /\ n \in DOMAIN tables

\* C3: whenever no close() is running, interrupted or not, every table file
\* holds a complete blob: none is empty or cut short.
C3_AtomicSave ==
    closing = Idle =>
        \A p \in Paths : \A fn \in DOMAIN files[p] : files[p][fn].size = "full"

Serialized == pcG # "build"
NumObjects == Cardinality(Reachable(heap, root))

\* C4 as stated: the recursion depth of convert_to_serializable never
\* exceeds the number of distinct objects of the graph.
C4_DepthWithinObjects == Serialized => ser.depth <= NumObjects

\* C4 as amended: convert_to_serializable returns on every graph, cyclic
\* ones included (no RecursionError), and its recursion depth never exceeds
\* the number of distinct objects of the graph plus one, the one being the
\* call that returns the placeholder.
C4_CycleContainment ==
    Serialized => /\ ser.depth <= RecursionLimit
                  /\ ser.depth <= NumObjects + 1

RECURSIVE Mentions(_, _)
Mentions(t, x) ==
    \/ t = PyStr(x)
    \/ \E j \in 1..Len(t.kids) : Mentions(t.kids[j], x)

\* A Table that another object (a list) refers back to was serialized: the
\* output holds the placeholder and the depth reached the bound.
C4_Witness ==
    /\ Serialized
    /\ heap[root].cls = "Table"
    /\ \E c \in Reachable(heap, root) : heap[c].kind = "list" /\ heap[c].kids # <<>>
    /\ Mentions(ser.out, "<recursion: Table>")

\* C5: close() with no path established fails (ValueError, "Database path
\* is not set"), and only then; it writes no file and leaves the mapping as
\* it was.  A close() that returns leaves, for every registered table, the
\* file <name>.tbl holding packb(convert_to_serializable(table)).
C5_CloseContract ==
    /\ [](lastOp.op = "close" /\ lastOp.err = "none" =>
            \A n \in DOMAIN tables :
                /\ FileName(n) \in DOMAIN files[db_path]
                /\ files[db_path][FileName(n)] = packb(Serialize(tables[n])))
    /\ [][lastOp'.op = "close" /\ (db_path = NoPath \/ lastOp'.err = "ValueError") =>
            /\ db_path = NoPath
            /\ lastOp'.err = "ValueError"
            /\ files' = files
            /\ tables' = tables
            /\ db_path' = db_path]_vars

\* close() has failed on a Database that holds tables and no path.
C5_Witness ==
    /\ lastOp.op = "close"
    /\ lastOp.err = "ValueError"
    /\ tables # EmptyMap

\* C6: drop_table(name) never fails, and leaves the name out of the mapping
\* and no file of that name in the directory.
C6_DropNeverFails ==
    lastOp.op = "drop_table" =>
        /\ lastOp.err = "none"
        /\ lastOp.arg \notin DOMAIN tables
        /\ db_path # NoPath => FileName(lastOp.arg) \notin DOMAIN files[db_path]

NonEmptyFiles(path) ==
    {fn \in DOMAIN files[path] : EndsWithTbl(fn) /\ files[path][fn] # EmptyBytes}

\* C7: open(path) on an existing directory fails only on a file that does
\* not unpack, never on an empty one; when it returns, the mapping holds
\* exactly the tables loaded from the non-empty table files, under the
\* files' names, and nothing else.
C7_OpenLoadsFiles ==
    lastOp.op = "open" /\ ~lastOp.fresh =>
        /\ lastOp.err = "none" <=>
              \A fn \in DOMAIN files[db_path] : files[db_path][fn] # PartialBytes
        /\ lastOp.err = "none" =>
              /\ DOMAIN tables = {fn[1] : fn \in NonEmptyFiles(db_path)}
              /\ \A n \in DOMAIN tables :
                    tables[n] = rehydrate(files[db_path][<<n, ".tbl">>].data)

\* open() has returned on a directory that holds an empty file beside a
\* table file it loaded.
C7_Witness ==
    /\ OpenedExisting
    /\ \E fn \in DOMAIN files[db_path] : files[db_path][fn] = EmptyBytes
    /\ tables # EmptyMap

\* C8: after open(path) has created the directory the mapping is empty.
C8_FreshOpenIsEmpty ==
    lastOp.op = "open" /\ lastOp.fresh => tables = EmptyMap

\* C9: create_table with a registered name fails with DuplicateTable and
\* leaves the mapping as it was.
C9_DuplicateRejected ==
    [][lastOp'.op = "create_table" /\ lastOp'.arg \in DOMAIN tables =>
          lastOp'.err = "DuplicateTable" /\ tables' = tables]_vars

\* C10: every table in the mapping has 0 <= key ordinal < number of columns
\* (create_table registers nothing for a key_index outside that range).
C10_ValidKeyIndex ==
    \A n \in DOMAIN tables :
        IsTable(tables[n]) => KeyOrdinal(tables[n]) \in 0..(NumColumns(tables[n]) - 1)

\* What self.tables.get(name, None) gives in the current state.
Registered(name) == IF name \in DOMAIN tables THEN tables[name] ELSE PyNone

\* get_table(name) returns, gives the registered table or None, and leaves
\* the mapping, the path and the directories as they were.
C11_Frame ==
    [][lastOp'.op = "get_table" =>
          /\ lastOp'.err = "none"
          /\ lastOp'.ret = Registered(lastOp'.arg)
          /\ tables' = tables /\ db_path' = db_path
          /\ dirs' = dirs /\ files' = files]_vars

\* C11: get_table(name) never raises, returns the registered table when
\* the name is in the mapping and None otherwise, changes neither the
\* mapping, the path nor the directory, and right after an open() that
\* created the directory it returns None for every name.
C11_GetTable ==
    [][lastOp'.op = "get_table" =>
          /\ lastOp'.err = "none"
          /\ lastOp'.ret = Registered(lastOp'.arg)
          /\ tables' = tables /\ db_path' = db_path
          /\ dirs' = dirs /\ files' = files
          /\ (lastOp.op = "open" /\ lastOp.fresh => lastOp'.ret = PyNone)]_vars

\* t holds a tagged mapping whose tag is none of the kinds rehydrate
\* rebuilds.
RECURSIVE HoldsUnknownTag(_)
HoldsUnknownTag(t) ==
    \/ /\ t.kind = "dict"
       /\ HasKey(t, "__custom_type__")
       /\ Lookup(t, "__custom_type__") \notin {PyStr("Table"), PyStr("Index")}
    \/ \E j \in 1..Len(t.kids) : HoldsUnknownTag(t.kids[j])

\* C12: loading a blob that holds a type tag which is not a recognised kind
\* fails (CorruptData): rehydrate returns only for blobs all of whose tags
\* it recognises.
C12_UnknownTagRejected == pcG = "loaded" => ~HoldsUnknownTag(ser.out)

\* C13: close() flushes the Bufferpool before it writes the first table
\* file: no step of close() touches a table file while a frame of the pool
\* is dirty.
C13_FlushBeforeWrite ==
    [][closing.todo # <<>> /\ files' # files => bufferpool = {}]_vars

\* The placeholders convert_to_serializable can emit for the objects of
\* these graphs.
Placeholders ==
    {PyStr(RecursionMarker(c)) : c \in {"list", "dict", "str", "int", "NoneType"} \cup Classes}

RECURSIVE HasPlaceholder(_)
HasPlaceholder(t) ==
    \/ t \in Placeholders
    \/ \E j \in 1..Len(t.keys) : HasPlaceholder(t.keys[j])
    \/ \E j \in 1..Len(t.kids) : HasPlaceholder(t.kids[j])

\* The objects an object refers to, and whether a cycle is reachable from id.
Referents(h, a) ==
    {h[a].kids[j] : j \in 1..Len(h[a].kids)} \cup {h[a].keys[j] : j \in 1..Len(h[a].keys)}
Cyclic(h, id) ==
    \E a \in Reachable(h, id) :
        Referents(h, a) # {} /\ a \in ReachFrom(h, Referents(h, a))

\* The objects that stay in seen while other calls run: the containers and
\* the objects with attributes (a scalar leaves seen before its call ends).
Visitable(h) == {id \in 1..Len(h) : h[id].kind \in {"list", "dict", "obj"}}

\* C14: a call convert_to_serializable(obj, seen) returns the placeholder
\* exactly when obj is in seen, and leaves seen as it found it, so seen is
\* the active path of the walk: the output of a walk holds a placeholder
\* exactly when a cycle is reachable from its root, and an object that a
\* list of an acyclic graph refers to twice is serialized in full at both
\* positions.
C14_PlaceholderOnActivePathOnly ==
    pcG = "serialized" =>
        /\ \A id \in 1..Len(heap), seen \in SUBSET Visitable(heap) :
              LET r == Walk(heap, id, seen, 1)
              IN  /\ r.seen = seen
                  /\ r.out \in Placeholders <=> id \in seen
        /\ HasPlaceholder(ser.out) <=> Cyclic(heap, root)
        /\ \A c \in Reachable(heap, root) :
              heap[c].kind = "list" /\ ~Cyclic(heap, c) =>
                 LET out == convert_to_serializable(heap, c).out
                 IN  \A j \in 1..Len(heap[c].kids) :
                        out.kids[j] = convert_to_serializable(heap, heap[c].kids[j]).out

\* A list that refers twice to one container or object, in a graph without
\* a cycle, was serialized.
C14_Witness ==
    /\ Serialized
    /\ ~Cyclic(heap, root)
    /\ heap[root].kind = "list"
    /\ Len(heap[root].kids) = 2
    /\ heap[root].kids[1] = heap[root].kids[2]
    /\ ~IsBasic(heap[heap[root].kids[1]])
    /\ ser.out.kids[1] = ser.out.kids[2]

\* A mapping with the keys __custom_type__ and state, as the serializer
\* emits for an object; t holds one, at any depth.
IsTaggedMapping(t) == t.kind = "dict" /\ HasKey(t, "__custom_type__") /\ HasKey(t, "state")
RECURSIVE HoldsTaggedMapping(_)
HoldsTaggedMapping(t) ==
    \/ IsTaggedMapping(t)
    \/ \E j \in 1..Len(t.kids) : HoldsTaggedMapping(t.kids[j])

\* C15: for every tagged mapping convert_to_serializable emits, whatever
\* the class it names, rehydrate gives an instance of that class whose
\* fields are the rehydrated saved fields; what it returns holds no tagged
\* mapping in the place of an object.
C15_EveryTagRebuilt ==
    pcG = "loaded" =>
        /\ IsTaggedMapping(ser.out) =>
              /\ reh.kind = "obj"
              /\ PyStr(reh.cls) = Lookup(ser.out, "__custom_type__")
              /\ reh.kids[1] = rehydrate(Lookup(ser.out, "state"))
        /\ ~HoldsTaggedMapping(reh)

\* The errors the calls of a Database raise.
Raised == {"ValueError", "TypeError", "FileNotFoundError"}

\* C16: a call of open, close, create_table or drop_table that ends in an
\* error leaves the mapping, the path and the table files as they were
\* before the call.
C16_FailureAtomicity ==
    [][/\ calls' # calls
       /\ lastOp'.op \in {"open", "close", "create_table", "drop_table"}
       /\ lastOp'.err \in Raised
       => /\ tables' = tables
          /\ db_path' = db_path
          /\ files' = files]_vars

IsScalar(n) == n.kind \in {"str", "int", "float", "bool", "none"}

\* t, the output for the object id of h, holds every scalar of the object as
\* it is: the walk of t along the object's keys, items and attributes finds
\* each scalar equal to the one in the graph, a placeholder standing only
\* where a container or an object is referred to.
RECURSIVE ScalarsKept(_, _, _)
ScalarsKept(h, id, t) ==
    LET n == h[id]
    IN  IF IsScalar(n) THEN t = n
        ELSE IF t \in Placeholders THEN TRUE
        ELSE IF n.kind = "dict"
        THEN /\ t.kind = "dict"
             /\ Len(t.keys) = Len(n.keys)
             /\ Len(t.kids) = Len(n.kids)
             /\ \A j \in 1..Len(n.keys) :
                   /\ ScalarsKept(h, n.keys[j], t.keys[j])
                   /\ ScalarsKept(h, n.kids[j], t.kids[j])
        ELSE IF n.kind = "list"
        THEN /\ t.kind = "list"
             /\ Len(t.kids) = Len(n.kids)
             /\ \A j \in 1..Len(n.kids) : ScalarsKept(h, n.kids[j], t.kids[j])
        ELSE /\ IsTaggedMapping(t)
             /\ ScalarsKept(h, n.kids[1], Lookup(t, "state"))

ScalarIds(h) == {id \in 1..Len(h) : IsScalar(h[id])}

\* C17: convert_to_serializable emits every scalar unchanged and never as
\* a placeholder, however often the same scalar object occurs in the graph:
\* a call on a scalar returns the scalar whatever containers and objects
\* are being visited, and the output of a walk holds each scalar as it is.
C17_ScalarsUnchanged ==
    Serialized =>
        /\ \A id \in ScalarIds(heap), seen \in SUBSET ((1..Len(heap)) \ ScalarIds(heap)) :
              Walk(heap, id, seen, 1).out = heap[id]
        /\ ScalarsKept(heap, root, ser.out)

\* A dict whose key and value are the same scalar object was serialized.
C17_Witness ==
    /\ Serialized
    /\ heap[root].kind = "dict"
    /\ \E j \in 1..Len(heap[root].keys) :
          /\ heap[root].keys[j] = heap[root].kids[j]
          /\ IsScalar(heap[heap[root].keys[j]])
          /\ ser.out.keys[j] = ser.out.kids[j]

\* The names dropped in the directory path, with no create_table of the
\* name since, before the last close() that returned there.
DroppedAndClosed(path) == {n \in DOMAIN dropped[path] : dropped[path][n] = "closed"}

\* C18: once drop_table(name) was called for a registered name on a
\* Database opened on a directory, and no create_table(name) follows, an
\* open() of that directory after a later close() registers no table under
\* the name.
C18_DroppedStaysDropped ==
    lastOp.op = "open" => DroppedAndClosed(db_path) \cap DOMAIN tables = {}

\* open() has loaded a directory in which a table was dropped, a close()
\* returned afterwards, and another table was saved.
C18_Witness ==
    /\ OpenedExisting
    /\ DroppedAndClosed(db_path) # {}
    /\ tables # EmptyMap

=============================================================================
